---- MODULE Spec2Model ----
(***************************************************************************)
(* A model of the periodic news scraper: the deduplicating CSV store       *)
(* (storage.py), the date inference engine and the article assembler       *)
(* (article_scraper.py) and the run loop of main() (scraper.py).           *)
(*                                                                         *)
(* Strings of the program are TLA+ strings drawn from small sets; a CSV    *)
(* file is the sequence of its data rows; a Python dict keyed by url is a  *)
(* sequence of key/value entries in insertion order.                       *)
(***************************************************************************)
EXTENDS Integers, Sequences, FiniteSets, TLC

VARIABLES
    file,                 \* the CSV file at output_csv: [exists, rows]
    existing_articles,    \* the caller's dict url -> record (insertion order)
    api,                  \* store calls made so far (history, SpecStore)
    dt,                   \* one call of extract_article (SpecDate)
    lk,                   \* calls of get_article_urls on one listing (SpecLinks)
    wk,                   \* workers calling save_articles (SpecWorkers)
    ct,                   \* one extraction of the content field (SpecContent)
    hd,                   \* one write of the file's header row (SpecHeader)
    pc,                   \* where main() is
    cfg,                  \* the configuration: sources and settings
    si,                   \* index of the source the loop of main() is at
    urls,                 \* urls of the current source not yet visited
    source_articles,      \* records of the current source (articles in scrape_source)
    all_articles,         \* main()'s all_articles
    articles_since_save,  \* main()'s articles_since_save
    exit_code,            \* what main() returned
    hist                  \* history of the run, read by the properties only

runvars == <<pc, cfg, si, urls, source_articles, all_articles, articles_since_save,
             exit_code, hist>>

vars == <<file, existing_articles, api, dt, lk, wk, ct, hd, runvars>>

\* the value of a variable a specification does not use
Unused == <<>>

RunUnused ==
    /\ pc = Unused /\ cfg = Unused /\ si = Unused /\ urls = Unused
    /\ source_articles = Unused /\ all_articles = Unused
    /\ articles_since_save = Unused /\ exit_code = Unused /\ hist = Unused

----------------------------------------------------------------------------
(* Bounds of the model *)

MaxCalls == 2             \* store calls in one SpecStore behaviour
MaxSources == 2           \* configured sources
MaxLinks == 2             \* links on a listing page
MaxInterval == 2          \* largest save_interval

Urls == {"u1", "u2"}

----------------------------------------------------------------------------
(* storage.py *)

required_columns == <<"title", "author", "content", "source", "url", "date">>

Columns == {required_columns[i] : i \in 1..Len(required_columns)}

\* pandas' missing value (float nan); never equal to a string of the program
NaN == "<NaN>"

NoFile == [exists |-> FALSE, rows |-> <<>>]

\* d[key] = val on an insertion-ordered dict: an existing key keeps its place
DictSet(d, key, val) ==
    IF \E i \in 1..Len(d) : d[i].k = key
    THEN [i \in 1..Len(d) |-> IF d[i].k = key THEN [k |-> key, v |-> val] ELSE d[i]]
    ELSE Append(d, [k |-> key, v |-> val])

DictKeys(d) == {d[i].k : i \in 1..Len(d)}

DictValues(d) == [i \in 1..Len(d) |-> d[i].v]

\* pd.read_csv on one cell: an empty field is read as the missing value
ReadCsvCell(s) == IF s = "" THEN NaN ELSE s

\* pd.read_csv: the data rows of the file, each cell read
ReadCsv(f) ==
    [i \in 1..Len(f.rows) |-> [c \in DOMAIN f.rows[i] |-> ReadCsvCell(f.rows[i][c])]]

RECURSIVE RowsToDict(_, _)
RowsToDict(rows, d) ==
    IF rows = <<>> THEN d
    ELSE RowsToDict(Tail(rows), DictSet(d, Head(rows)["url"], Head(rows)))

\* load_existing_articles; readOk = FALSE is pd.read_csv raising, which the
\* function swallows and answers with the empty dict
load_existing_articles(f, readOk) ==
    IF ~f.exists THEN <<>>
    ELSE IF ~readOk \/ f.rows = <<>> THEN <<>>
    ELSE RowsToDict(ReadCsv(f), <<>>)

\* pd.DataFrame(list of dicts): one column per key that occurs, a record that
\* lacks the key gets the missing value
DataFrame(dicts) ==
    LET cols == UNION {DOMAIN dicts[i] : i \in 1..Len(dicts)}
    IN  [columns |-> cols,
         rows |-> [i \in 1..Len(dicts) |->
                     [c \in cols |-> IF c \in DOMAIN dicts[i] THEN dicts[i][c] ELSE NaN]]]

\* for col in required_columns: if col not in df.columns: df[col] = ''
AddRequiredColumns(df) ==
    [columns |-> df.columns \cup Columns,
     rows |-> [i \in 1..Len(df.rows) |->
                 [c \in df.columns \cup Columns |->
                     IF c \in df.columns THEN df.rows[i][c] ELSE ""]]]

\* df.to_csv on one cell: the missing value is written as the empty field
ToCsvCell(v) == IF v = NaN THEN "" ELSE v

\* df.to_csv(csv_path, index=False, quoting=csv.QUOTE_ALL): the whole file is
\* rewritten
ToCsv(df) ==
    [exists |-> TRUE,
     rows |-> [i \in 1..Len(df.rows) |->
                 [c \in df.columns |-> ToCsvCell(df.rows[i][c])]]]

NewArticles_NoFilter(articles, existing) == articles

\* new_articles: the articles whose url is not a key of existing_articles
NewArticles(articles, existing) ==
    SelectSeq(articles, LAMBDA a : a["url"] \notin DictKeys(existing))

\* what a failed write can leave behind: the old file, or a file that was
\* opened for writing (truncated) and not written
WriteOutcomes == {"ok", "fail_untouched", "fail_truncated"}

\* save_articles(articles, csv_path, existing_articles) with the dict given;
\* answers the file afterwards, the count returned and the table handed to
\* to_csv (<<>> when nothing was written)
save_articles(articles, f, existing, wr) ==
    LET new_articles == NewArticles(articles, existing)
        all == DictValues(existing) \o new_articles
    IN  IF articles = <<>> \/ new_articles = <<>>
        THEN [file |-> f, ret |-> 0, wrote |-> <<>>]
        ELSE IF wr = "ok"
        THEN [file |-> ToCsv(AddRequiredColumns(DataFrame(all))),
              ret |-> Len(new_articles), wrote |-> all]
        ELSE [file |-> IF wr = "fail_truncated"
                       THEN [exists |-> TRUE, rows |-> <<>>] ELSE f,
              ret |-> 0, wrote |-> <<>>]

----------------------------------------------------------------------------
(* article_scraper.py: dates *)

TIMEOUT == 10

\* a datetime, an absent value (None) and a raised exception as results
DateOf(date, hour) == [kind |-> "date", date |-> date, hour |-> hour]

NoDate == [kind |-> "none", date |-> <<0, 0, 0>>, hour |-> 0]

Raised == [kind |-> "raise", date |-> <<0, 0, 0>>, hour |-> 0]

IsLeap(y) == (y % 4 = 0 /\ y % 100 # 0) \/ y % 400 = 0

DaysInMonth(y, m) ==
    IF m = 2 THEN (IF IsLeap(y) THEN 29 ELSE 28)
    ELSE IF m \in {4, 6, 9, 11} THEN 30 ELSE 31

\* what the datetime constructor accepts; anything else is a ValueError
ValidDate(d) ==
    /\ d[1] >= 1 /\ d[1] <= 9999
    /\ d[2] >= 1 /\ d[2] <= 12
    /\ d[3] >= 1 /\ d[3] <= DaysInMonth(d[1], d[2])

\* date a < date b
DateLT(a, b) ==
    \/ a[1] < b[1]
    \/ a[1] = b[1] /\ a[2] < b[2]
    \/ a[1] = b[1] /\ a[2] = b[2] /\ a[3] < b[3]

(* A date string of a document is [form, date, hour, z]:
     "iso"        YYYY-MM-DDTHH:00:00
     "ymd"        YYYY-MM-DD            "ymd_slash"  YYYY/MM/DD
     "BdY"        Month DD, YYYY        "dBY"        DD Month YYYY
     "nn/nn/Y"    date[2]/date[3]/date[1], two numbers and a year
     "junkT"      text with a letter T that is no date (Tuesday)
     "junk"       other text            "empty"      the empty string
   followed by the UTC marker Z when z                                     *)
DateStr(form, date, hour, z) == [form |-> form, date |-> date, hour |-> hour, z |-> z]

EmptyStr == DateStr("empty", <<0, 0, 0>>, 0, FALSE)

\* 'T' in date_str
ContainsT(s) == s.form \in {"iso", "junkT"}

\* datetime.fromisoformat(date_str), after replace('Z', '+00:00') when the
\* string ends with Z: the date and time written, or a ValueError
FromIsoFormat(s) ==
    IF s.form = "iso" /\ ValidDate(s.date) THEN DateOf(s.date, s.hour) ELSE Raised

\* datetime.strptime(date_str, fmt): a datetime at midnight or a ValueError
\* (a trailing Z is text the format does not account for)
Strptime(s, fmt) ==
    LET d == IF fmt = "%d/%m/%Y" THEN <<s.date[1], s.date[3], s.date[2]>> ELSE s.date
        shape == CASE fmt = "%Y-%m-%d" -> "ymd"
                   [] fmt = "%Y/%m/%d" -> "ymd_slash"
                   [] fmt = "%B %d, %Y" -> "BdY"
                   [] fmt = "%d %B %Y" -> "dBY"
                   [] OTHER -> "nn/nn/Y"
    IN  IF s.form = shape /\ ~s.z /\ ValidDate(d) THEN DateOf(d, 0) ELSE Raised

\* for fmt in fmts: try: return strptime(date_str, fmt) except ValueError: continue
RECURSIVE TryFormats(_, _)
TryFormats(s, fmts) ==
    IF fmts = <<>> THEN NoDate
    ELSE IF Strptime(s, Head(fmts)).kind = "date" THEN Strptime(s, Head(fmts))
    ELSE TryFormats(s, Tail(fmts))

MetaFormats == <<"%Y-%m-%d", "%Y/%m/%d", "%B %d, %Y", "%d %B %Y">>

ClassFormats == <<"%Y-%m-%d", "%B %d, %Y", "%d %B %Y", "%m/%d/%Y", "%d/%m/%Y">>

\* the body of the try of strategies 3 and 4 on one attribute value: ISO when
\* the string holds a T, else the format list; an exception is passed over
ParseAttribute(s) ==
    IF ContainsT(s)
    THEN (IF FromIsoFormat(s).kind = "date" THEN FromIsoFormat(s) ELSE NoDate)
    ELSE TryFormats(s, MetaFormats)

month_abbr(m) ==
    CASE m = "jan" -> 1 [] m = "feb" -> 2 [] m = "mar" -> 3 [] m = "apr" -> 4
      [] m = "may" -> 5 [] m = "jun" -> 6 [] m = "jul" -> 7 [] m = "aug" -> 8
      [] m = "sep" -> 9 [] m = "oct" -> 10 [] m = "nov" -> 11 [] m = "dec" -> 12
      [] OTHER -> 1

(* What the regular expressions of get_date_from_url find in a url: for each
   pattern the groups of its leftmost match, <<>> when it does not match.
   p1 /(\d{4})/(\d{1,2})/(\d{1,2})/      p2 the same followed by \w+/
   p3 -(\d{4})(\d{2})(\d{2})$            p4 /(\d{4})/([a-z]{3})/(\d{1,2})/
   bbc -(\d{8})$, read as YYYYMMDD                                         *)
NoMatch == <<>>

UrlGroups(p1, p2, p3, p4) == [p1 |-> p1, p2 |-> p2, p3 |-> p3, p4 |-> p4, bbc |-> p3]

UrlMatches(url) ==
    CASE url = "https://n.example/2024/03/07/story"
           -> UrlGroups(<<2024, 3, 7>>, NoMatch, NoMatch, NoMatch)
      [] url = "https://n.example/2024/03/07/world/story"
           -> UrlGroups(<<2024, 3, 7>>, <<2024, 3, 7>>, NoMatch, NoMatch)
      [] url = "https://n.example/2024/13/07/story-20230105"
           -> UrlGroups(<<2024, 13, 7>>, NoMatch, <<2023, 1, 5>>, NoMatch)
      [] url = "https://n.example/2023/02/31/a/2023/jun/01/story"
           -> UrlGroups(<<2023, 2, 31>>, <<2023, 2, 31>>, NoMatch, <<2023, "jun", 1>>)
      [] url = "https://n.example/1800/01/01/story"
           -> UrlGroups(<<1800, 1, 1>>, NoMatch, NoMatch, NoMatch)
      [] url = "https://n.example/2023/xyz/09/story"
           -> UrlGroups(NoMatch, NoMatch, NoMatch, <<2023, "xyz", 9>>)
      [] OTHER -> UrlGroups(NoMatch, NoMatch, NoMatch, NoMatch)

\* the body of the loop of get_date_from_url on the groups of one match
UrlPatternDate(g, alpha) ==
    IF g = NoMatch THEN NoDate
    ELSE LET d == <<g[1], IF alpha THEN month_abbr(g[2]) ELSE g[2], g[3]>>
         IN  IF /\ 1900 <= d[1] /\ d[1] <= 2100
                /\ 1 <= d[2] /\ d[2] <= 12
                /\ 1 <= d[3] /\ d[3] <= 31
                /\ ValidDate(d)
             THEN DateOf(d, 0) ELSE NoDate

get_date_from_url(url) ==
    LET m == UrlMatches(url) IN
    IF UrlPatternDate(m.p1, FALSE).kind = "date" THEN UrlPatternDate(m.p1, FALSE)
    ELSE IF UrlPatternDate(m.p2, FALSE).kind = "date" THEN UrlPatternDate(m.p2, FALSE)
    ELSE IF UrlPatternDate(m.p3, FALSE).kind = "date" THEN UrlPatternDate(m.p3, FALSE)
    ELSE IF UrlPatternDate(m.p4, TRUE).kind = "date" THEN UrlPatternDate(m.p4, TRUE)
    ELSE UrlPatternDate(m.bbc, FALSE)

(* A JSON-LD script block is [kind, top, article, graph]:
     "badjson"   text that json.loads rejects (JSONDecodeError)
     "nostring"  a script element whose .string is None (TypeError)
     "emptylist" the JSON array []  (data[0] is an IndexError)
     "scalar"    JSON that is neither an object nor an array
     "object"    an object, or an array whose first element is the object:
                 top and article are datePublished values, graph the
                 datePublished values of the @graph items that have one.
   A datePublished value is [t, s]: t = "absent", "nonstr" (a number, null)
   or "str" with the string s.                                             *)
JAbsent == [t |-> "absent", s |-> EmptyStr]

JNonStr == [t |-> "nonstr", s |-> EmptyStr]

JStr(s) == [t |-> "str", s |-> s]

JBlock(kind, top, article, graph) ==
    [kind |-> kind, top |-> top, article |-> article, graph |-> graph]

\* if 'T' in date_str: return fromisoformat(...), inside try/except ValueError
JsonDateString(s) ==
    IF ContainsT(s) /\ FromIsoFormat(s).kind = "date" THEN FromIsoFormat(s) ELSE NoDate

\* the loop over data['@graph']: an item's value is not checked to be a string
RECURSIVE JsonGraph(_)
JsonGraph(graph) ==
    IF graph = <<>> THEN NoDate
    ELSE IF Head(graph).t = "nonstr" THEN Raised
    ELSE IF Head(graph).t = "str" /\ JsonDateString(Head(graph).s).kind = "date"
    THEN JsonDateString(Head(graph).s)
    ELSE JsonGraph(Tail(graph))

\* one pass of the loop over the script tags: a date returned, an exception
\* that leaves extract_date_from_json_ld, or NoDate (go on with the next tag)
JsonBlock(b) ==
    IF b.kind \in {"badjson", "scalar"} THEN NoDate
    ELSE IF b.kind \in {"nostring", "emptylist"} THEN Raised
    ELSE IF b.top.t = "str" /\ JsonDateString(b.top.s).kind = "date"
    THEN JsonDateString(b.top.s)
    ELSE IF b.article.t = "str" /\ JsonDateString(b.article.s).kind = "date"
    THEN JsonDateString(b.article.s)
    ELSE JsonGraph(b.graph)

RECURSIVE extract_date_from_json_ld(_)
extract_date_from_json_ld(blocks) ==
    IF blocks = <<>> THEN NoDate
    ELSE IF JsonBlock(Head(blocks)).kind # "none" THEN JsonBlock(Head(blocks))
    ELSE extract_date_from_json_ld(Tail(blocks))

\* the fifteen attribute/value pairs of meta_tags, in their order
meta_tags ==
    <<"property=article:published_time", "property=article:modified_time",
      "name=pubdate", "name=publishdate", "name=date", "name=published-date",
      "itemprop=datePublished", "itemprop=dateModified", "name=DC.date.issued",
      "name=DC.date.created", "name=DC.date", "name=article.published",
      "name=article.created", "name=date_published", "property=og:published_time">>

\* strategy 3; doc.meta is the sequence of [tag, content] of the document's
\* meta elements (content the empty string when the attribute is missing);
\* soup.find answers the first element with the attribute/value pair
RECURSIVE MetaStrategy(_, _)
MetaStrategy(meta, i) ==
    IF i > Len(meta_tags) THEN NoDate
    ELSE LET found == SelectSeq(meta, LAMBDA e : e.tag = meta_tags[i])
         IN  IF /\ found # <<>>
                /\ Head(found).content.form # "empty"
                /\ ParseAttribute(Head(found).content).kind = "date"
             THEN ParseAttribute(Head(found).content)
             ELSE MetaStrategy(meta, i + 1)

\* strategy 4; doc.times is the sequence of the time elements' datetime (or
\* content) attribute values, the empty string for an element that has none
RECURSIVE TimeStrategy(_)
TimeStrategy(times) ==
    IF times = <<>> THEN NoDate
    ELSE IF Head(times).form # "empty" /\ ParseAttribute(Head(times)).kind = "date"
    THEN ParseAttribute(Head(times))
    ELSE TimeStrategy(Tail(times))

date_classes ==
    <<"date", "time", "timestamp", "article-date", "article__date",
      "publication-date", "byline-date", "meta-date", "story-date",
      "publish-date", "post-date">>

\* [class*="name"]: name is a substring of the element's class attribute
ClassContains(cls, name) ==
    \/ cls = name
    \/ name = "date" /\ cls \in {"article-date", "article__date", "publication-date",
                                  "byline-date", "meta-date", "story-date",
                                  "publish-date", "post-date", "updated"}
    \/ name = "time" /\ cls \in {"timestamp", "timeline"}

RECURSIVE ClassElements(_)
ClassElements(elems) ==
    IF elems = <<>> THEN NoDate
    ELSE IF TryFormats(Head(elems).text, ClassFormats).kind = "date"
    THEN TryFormats(Head(elems).text, ClassFormats)
    ELSE ClassElements(Tail(elems))

\* strategy 5; doc.classed is the sequence of [cls, text] of the elements
\* that carry a class attribute, in document order
RECURSIVE ClassStrategy(_, _)
ClassStrategy(classed, i) ==
    IF i > Len(date_classes) THEN NoDate
    ELSE LET sel == SelectSeq(classed, LAMBDA e : ClassContains(e.cls, date_classes[i]))
         IN  IF ClassElements(sel).kind = "date" THEN ClassElements(sel)
             ELSE ClassStrategy(classed, i + 1)

StrategyOrder == <<"url", "json_ld", "meta", "time", "class">>

\* what one strategy answers on its own
Strategy(name, doc, url) ==
    CASE name = "url" -> get_date_from_url(url)
      [] name = "json_ld" -> extract_date_from_json_ld(doc.json_ld)
      [] name = "meta" -> MetaStrategy(doc.meta, 1)
      [] name = "time" -> TimeStrategy(doc.times)
      [] OTHER -> ClassStrategy(doc.classed, 1)

RECURSIVE Cascade(_, _, _, _)
Cascade(order, doc, url, evaluated) ==
    IF order = <<>> THEN [result |-> NoDate, evaluated |-> evaluated]
    ELSE LET r == Strategy(Head(order), doc, url)
         IN  IF r.kind # "none"
             THEN [result |-> r, evaluated |-> Append(evaluated, Head(order))]
             ELSE Cascade(Tail(order), doc, url, Append(evaluated, Head(order)))

\* the date a run started on, which no strategy may answer
Today == <<2024, 7, 1>>

extract_date_DefaultToday(doc, url) ==
    LET c == Cascade(StrategyOrder, doc, url, <<>>)
    IN  IF c.result.kind = "none" THEN [c EXCEPT !.result = DateOf(Today, 0)] ELSE c

extract_date_JsonLdFirst(doc, url) ==
    Cascade(<<"json_ld", "url", "meta", "time", "class">>, doc, url, <<>>)

\* extract_date(soup, url): the result (a datetime, None, or the exception
\* that leaves it) and the strategies that were evaluated, in order
extract_date(doc, url) == Cascade(StrategyOrder, doc, url, <<>>)

TwoDigits(n) == IF n < 10 THEN "0" \o ToString(n) ELSE ToString(n)

FourDigits(y) ==
    IF y < 10 THEN "000" \o ToString(y)
    ELSE IF y < 100 THEN "00" \o ToString(y)
    ELSE IF y < 1000 THEN "0" \o ToString(y) ELSE ToString(y)

\* pub_date.strftime('%Y-%m-%d'), the time of day dropped. The platform's C
\* library decides whether a year below 1000 is padded to four digits
\* (pads) or written as it is
Strftime(d, pads) ==
    (IF pads THEN FourDigits(d.date[1]) ELSE ToString(d.date[1]))
        \o "-" \o TwoDigits(d.date[2]) \o "-" \o TwoDigits(d.date[3])

\* the calendar dates the model's documents and urls speak of
ModelDates ==
    {d \in {1, 2023, 2024} \X {1, 2, 3, 6, 7} \X {1, 5, 7, 9} : ValidDate(d)}

\* datetime.strptime(text, '%Y-%m-%d') on a string strftime wrote: %Y takes
\* exactly four digits; anything else is a ValueError
StrptimeYmd(text) ==
    LET hit == {d \in ModelDates :
                  text = FourDigits(d[1]) \o "-" \o TwoDigits(d[2]) \o "-" \o TwoDigits(d[3])}
    IN  IF hit = {} THEN Raised ELSE DateOf(CHOOSE d \in hit : TRUE, 0)

NoRecord == [kind |-> "none"]

\* extract_article_bs4: fetch is "ok", or "timeout" / "error" (requests.get or
\* raise_for_status raising); every exception inside ends in return None
extract_article_bs4(url, source_name, page, pads) ==
    IF page.fetch # "ok" THEN NoRecord
    ELSE LET pub_date == extract_date(page.doc, url).result
         IN  IF pub_date.kind # "date" THEN NoRecord
             ELSE [kind |-> "record",
                   rec |-> [title |-> page.doc.title, author |-> "Unknown",
                            content |-> page.doc.content, source |-> source_name,
                            url |-> url, date |-> Strftime(pub_date, pads)]]

NoCutoff == <<>>

ArticleBeforeCutoff_OrEqual(article_date, start_date) == ~DateLT(start_date, article_date)

\* article_date < start_date
ArticleBeforeCutoff(article_date, start_date) == DateLT(article_date, start_date)

\* extract_article: a record, None, or the ValueError of strptime on the
\* record's date string
extract_article(url, source_name, page, start_date, pads) ==
    LET article_data == extract_article_bs4(url, source_name, page, pads)
    IN  IF article_data.kind = "record" /\ start_date # NoCutoff
        THEN LET article_date == StrptimeYmd(article_data.rec.date)
             IN  IF article_date.kind # "date" THEN [kind |-> "raise"]
                 ELSE IF ArticleBeforeCutoff(article_date.date, start_date)
                 THEN NoRecord
                 ELSE article_data
        ELSE article_data

----------------------------------------------------------------------------
(* Records and files used as inputs of the store *)

\* a record as the assembler builds it (all six keys)
FullRecord(u, content) ==
    [title |-> "t", author |-> "Unknown", content |-> content,
     source |-> "s1", url |-> u, date |-> "2024-03-07"]

\* a record of another caller that lacks optional fields
PartialRecord(u) == [url |-> u, title |-> "t"]

StoreRecords ==
    {FullRecord(u, c) : u \in Urls, c \in {"", "c1"}} \cup {PartialRecord(u) : u \in Urls}

StoreBatches ==
    {<<>>} \cup {<<r>> : r \in StoreRecords}
           \cup {<<FullRecord(u, "c1"), FullRecord(u, "c2")>> : u \in Urls}

\* files the program can have written before
StoreFiles ==
    {NoFile,
     ToCsv(AddRequiredColumns(DataFrame(<<FullRecord("u1", "c0")>>))),
     ToCsv(AddRequiredColumns(DataFrame(<<FullRecord("u1", "c0"), FullRecord("u1", "c0")>>)))}

----------------------------------------------------------------------------
(* SpecDate: extract_article on one fetched page *)

Iso(date, hour, z) == DateStr("iso", date, hour, z)

Meta(tag, content) == [tag |-> tag, content |-> content]

JObject(top, article, graph) == JBlock("object", top, article, graph)

JOther(kind) == JBlock(kind, JAbsent, JAbsent, <<>>)

DateUrls ==
    {"https://n.example/story",
     "https://n.example/2024/03/07/story",
     "https://n.example/2024/03/07/world/story",
     "https://n.example/2024/13/07/story-20230105",
     "https://n.example/2023/02/31/a/2023/jun/01/story",
     "https://n.example/1800/01/01/story",
     "https://n.example/2023/xyz/09/story"}

DateJsonLds ==
    {<<>>,
     <<JOther("badjson")>>,
     <<JOther("nostring")>>,
     <<JOther("emptylist")>>,
     <<JObject(JStr(Iso(<<2023, 6, 1>>, 12, TRUE)), JAbsent, <<>>)>>,
     <<JObject(JStr(DateStr("ymd", <<2023, 6, 1>>, 0, FALSE)), JAbsent, <<>>)>>,
     <<JObject(JNonStr, JStr(Iso(<<2023, 1, 1>>, 0, FALSE)), <<>>)>>,
     <<JObject(JAbsent, JAbsent, <<JNonStr>>)>>,
     <<JOther("badjson"), JObject(JAbsent, JAbsent, <<JAbsent, JStr(Iso(<<2023, 7, 1>>, 0, TRUE))>>)>>}

DateMetas ==
    {<<>>,
     <<Meta(meta_tags[1], Iso(<<2024, 1, 5>>, 12, FALSE))>>,
     <<Meta(meta_tags[1], Iso(<<1, 1, 1>>, 0, TRUE))>>,
     <<Meta(meta_tags[5], DateStr("ymd", <<2023, 6, 1>>, 0, FALSE)),
       Meta(meta_tags[1], DateStr("junkT", <<0, 0, 0>>, 0, FALSE))>>,
     <<Meta(meta_tags[1], EmptyStr), Meta(meta_tags[15], DateStr("BdY", <<2023, 1, 1>>, 0, FALSE))>>}

DateTimes ==
    {<<>>,
     <<EmptyStr, DateStr("ymd_slash", <<2023, 7, 1>>, 0, FALSE)>>,
     <<DateStr("junk", <<0, 0, 0>>, 0, FALSE), Iso(<<2023, 6, 1>>, 0, TRUE)>>}

DateClassed ==
    {<<>>,
     <<[cls |-> "byline", text |-> DateStr("BdY", <<2023, 7, 1>>, 0, FALSE)]>>,
     <<[cls |-> "timestamp", text |-> DateStr("nn/nn/Y", <<2023, 6, 1>>, 0, FALSE)],
       [cls |-> "post-date", text |-> DateStr("dBY", <<2023, 1, 1>>, 0, FALSE)]>>}

Doc(json_ld, meta, times, classed, title, content) ==
    [json_ld |-> json_ld, meta |-> meta, times |-> times, classed |-> classed,
     title |-> title, content |-> content]

DatePages ==
    {[fetch |-> f, doc |-> Doc(j, m, t, c, "t", "c1")] :
        f \in {"ok"}, j \in DateJsonLds, m \in DateMetas, t \in DateTimes, c \in DateClassed}
    \cup {[fetch |-> f, doc |-> Doc(<<>>, <<>>, <<>>, <<>>, "t", "c1")] : f \in {"timeout", "error"}}

StartDates == {NoCutoff, <<2023, 6, 1>>, <<2024, 3, 7>>}

InitDate ==
    /\ file = NoFile
    /\ existing_articles = Unused
    /\ api = Unused
    /\ lk = Unused
    /\ wk = Unused
    /\ ct = Unused
    /\ hd = Unused
    /\ RunUnused
    /\ \E url \in DateUrls, page \in DatePages, start_date \in StartDates, pads \in BOOLEAN :
         dt = [url |-> url, page |-> page, start_date |-> start_date, pads |-> pads,
               done |-> FALSE, engine |-> [result |-> NoDate, evaluated |-> <<>>],
               bs4 |-> NoRecord, out |-> NoRecord]

\* article_data = extract_article(url, source_name, source_config, start_date)
Extract ==
    /\ ~dt.done
    /\ dt' = [dt EXCEPT
                !.done = TRUE,
                !.engine = IF dt.page.fetch = "ok" THEN extract_date(dt.page.doc, dt.url)
                           ELSE dt.engine,
                !.bs4 = extract_article_bs4(dt.url, "s1", dt.page, dt.pads),
                !.out = extract_article(dt.url, "s1", dt.page, dt.start_date, dt.pads)]
    /\ UNCHANGED <<file, existing_articles, api, lk, wk, ct, hd, runvars>>

NextDate == Extract

SpecDate == InitDate /\ [][NextDate]_vars

\* no strategy, asked on its own, answers a date for the page
AllStrategiesFail ==
    \A i \in 1..Len(StrategyOrder) :
        Strategy(StrategyOrder[i], dt.page.doc, dt.url).kind # "date"

(* C6: a record is built only with a date the engine resolved: the record's
   date is the engine's date, and when none of the five strategies answers a
   date the engine answers no date (None when all five end without one, never
   the current date) and neither extract_article_bs4 nor extract_article
   returns a record. *)
C6_NoRecordWithoutDate ==
    dt.done =>
        /\ dt.out.kind = "record" =>
              /\ dt.engine.result.kind = "date"
              /\ dt.out.rec.date = Strftime(dt.engine.result, dt.pads)
        /\ AllStrategiesFail =>
              /\ dt.engine.result.kind # "date"
              /\ dt.bs4 = NoRecord /\ dt.out = NoRecord
        /\ (\A i \in 1..Len(StrategyOrder) :
                Strategy(StrategyOrder[i], dt.page.doc, dt.url) = NoDate)
              => dt.engine.result = NoDate

\* a fetched page with no date signal anywhere was assembled into no record
C6_Witness ==
    /\ dt.done /\ dt.page.fetch = "ok"
    /\ \A i \in 1..Len(StrategyOrder) :
           Strategy(StrategyOrder[i], dt.page.doc, dt.url) = NoDate
    /\ dt.engine.evaluated = StrategyOrder
    /\ dt.out = NoRecord

\* the url holds a /YYYY/MM/DD/ path that is a valid date
UrlHasValidDatePath ==
    /\ UrlMatches(dt.url).p1 # NoMatch
    /\ UrlPatternDate(UrlMatches(dt.url).p1, FALSE).kind = "date"

(* C7: the strategies run in the order url, JSON-LD, meta tags, time
   elements, class names and stop at the first that answers: the strategies
   evaluated are a prefix of that order, every one before the last answered
   nothing, the last one's answer is the result, and a url with a valid
   /YYYY/MM/DD/ path gives that date with no other strategy evaluated,
   whatever the document holds. *)
C7_FixedOrderShortCircuit ==
    (dt.done /\ dt.page.fetch = "ok") =>
        LET ev == dt.engine.evaluated
            order == <<"url", "json_ld", "meta", "time", "class">>
        IN  /\ Len(ev) >= 1 /\ Len(ev) <= 5
            /\ \A i \in 1..Len(ev) : ev[i] = order[i]
            /\ \A i \in 1..(Len(ev) - 1) : Strategy(ev[i], dt.page.doc, dt.url) = NoDate
            /\ dt.engine.result = Strategy(ev[Len(ev)], dt.page.doc, dt.url)
            /\ dt.engine.result = NoDate => Len(ev) = 5
            /\ UrlHasValidDatePath =>
                  /\ ev = <<"url">>
                  /\ dt.engine.result = DateOf(UrlMatches(dt.url).p1, 0)

\* the url's date won over a meta tag with another date and a JSON-LD block
\* that would have raised
C7_Witness ==
    /\ dt.done /\ dt.page.fetch = "ok" /\ UrlHasValidDatePath
    /\ Strategy("meta", dt.page.doc, dt.url).kind = "date"
    /\ Strategy("meta", dt.page.doc, dt.url).date # UrlMatches(dt.url).p1
    /\ Strategy("json_ld", dt.page.doc, dt.url).kind = "raise"
    /\ dt.engine.result = DateOf(<<2024, 3, 7>>, 0)
    /\ dt.out.kind = "record"

(* C8: with a start_date cutoff, for a page that extract_article_bs4
   assembled into a record, extract_article returns that record exactly when
   the resolved date is on or after the cutoff day; a record dated before the
   cutoff is not returned. *)
C8_CutoffKeepsOnOrAfter ==
    (dt.done /\ dt.start_date # NoCutoff /\ dt.bs4.kind = "record") =>
        LET on_or_after ==
                \/ dt.engine.result.date = dt.start_date
                \/ DateLT(dt.start_date, dt.engine.result.date)
        IN  /\ dt.out.kind = "record" <=> on_or_after
            /\ dt.out.kind = "record" => dt.out = dt.bs4

\* an article dated on the cutoff day itself, at noon, was kept
C8_Witness ==
    /\ dt.done /\ dt.start_date = <<2023, 6, 1>>
    /\ dt.engine.result = DateOf(<<2023, 6, 1>>, 12)
    /\ dt.out.kind = "record" /\ dt.out.rec.date = "2023-06-01"

\* a JSON-LD script block that is not a well-formed object with string dates:
\* text that is not JSON, an empty script element, the array [], or an object
\* with a datePublished that is not a string
BlockMalformed(b) ==
    \/ b.kind \in {"badjson", "nostring", "emptylist"}
    \/ /\ b.kind = "object"
       /\ \/ b.top.t = "nonstr"
          \/ b.article.t = "nonstr"
          \/ \E i \in 1..Len(b.graph) : b.graph[i].t = "nonstr"

\* the block holds a datePublished string the strategy can read as a date
BlockHasDate(b) ==
    /\ b.kind = "object"
    /\ \/ b.top.t = "str" /\ JsonDateString(b.top.s).kind = "date"
       \/ b.article.t = "str" /\ JsonDateString(b.article.s).kind = "date"
       \/ \E i \in 1..Len(b.graph) :
             b.graph[i].t = "str" /\ JsonDateString(b.graph[i].s).kind = "date"

\* the document's structured data is malformed and holds no date
JsonLdMalformed(doc) ==
    /\ doc.json_ld # <<>>
    /\ \A i \in 1..Len(doc.json_ld) :
          BlockMalformed(doc.json_ld[i]) /\ ~BlockHasDate(doc.json_ld[i])

\* what the strategies after JSON-LD answer: the meta tags, then the time
\* elements
MetaOrTimeDate(doc, url) ==
    IF Strategy("meta", doc, url) # NoDate THEN Strategy("meta", doc, url)
    ELSE Strategy("time", doc, url)

(* C20: a parse failure inside the JSON-LD strategy falls through to the next
   strategy: for a fetched page whose url holds no date, whose JSON-LD blocks
   are all malformed (invalid JSON, an empty script element, an empty array,
   a datePublished that is not a string) and whose meta tags or time elements
   give a valid date, extract_article_bs4 assembles the record with that
   date. *)
C20_MalformedJsonLdFallsThrough ==
    (/\ dt.done /\ dt.page.fetch = "ok"
     /\ Strategy("url", dt.page.doc, dt.url) = NoDate
     /\ JsonLdMalformed(dt.page.doc)
     /\ MetaOrTimeDate(dt.page.doc, dt.url).kind = "date") =>
        /\ dt.engine.result = MetaOrTimeDate(dt.page.doc, dt.url)
        /\ dt.bs4.kind = "record"
        /\ dt.bs4.rec.date = Strftime(MetaOrTimeDate(dt.page.doc, dt.url), dt.pads)

\* the content of the first of the fifteen pairs, from pair i on, that the
\* document has a meta element for with non-empty content; EmptyStr when
\* there is none
RECURSIVE FirstMetaContent(_, _)
FirstMetaContent(meta, i) ==
    IF i > Len(meta_tags) THEN EmptyStr
    ELSE LET found == SelectSeq(meta, LAMBDA e : e.tag = meta_tags[i])
         IN  IF found # <<>> /\ Head(found).content # EmptyStr
             THEN Head(found).content
             ELSE FirstMetaContent(meta, i + 1)

(* C21: in the meta-tag strategy the first of the fifteen pairs, in their
   priority order, whose tag is present with non-empty content wins: what the
   strategy answers is what the parse of that one value gives (its date, or
   no date when it does not parse), and no pair of lower priority is
   consulted after it. *)
C21_FirstMetaTagWins ==
    (/\ dt.done /\ dt.page.fetch = "ok"
     /\ \E k \in 1..Len(dt.engine.evaluated) : dt.engine.evaluated[k] = "meta"
     /\ FirstMetaContent(dt.page.doc.meta, 1) # EmptyStr) =>
        Strategy("meta", dt.page.doc, dt.url)
            = ParseAttribute(FirstMetaContent(dt.page.doc.meta, 1))

\* an ISO-8601 date-time or date-only string of a valid calendar date
ValidIso(s) == s.form \in {"iso", "ymd"} /\ ValidDate(s.date)

\* the string with the trailing UTC marker (z) or without it
WithMarker(s, z) == [s EXCEPT !.z = z]

\* both parsers read the string, with and without the marker, as its date
BothParsersReadIso(s) ==
    \A z \in BOOLEAN :
        /\ ParseAttribute(WithMarker(s, z)).kind = "date"
        /\ ParseAttribute(WithMarker(s, z)).date = s.date
        /\ JsonDateString(WithMarker(s, z)).kind = "date"
        /\ JsonDateString(WithMarker(s, z)).date = s.date

\* the datePublished strings of the page's JSON-LD objects and the content of
\* its meta elements
PageDateStrings(doc) ==
    {doc.meta[i].content : i \in 1..Len(doc.meta)}
    \cup {doc.json_ld[i].top.s : i \in {k \in 1..Len(doc.json_ld) : doc.json_ld[k].top.t = "str"}}
    \cup {doc.json_ld[i].article.s :
            i \in {k \in 1..Len(doc.json_ld) : doc.json_ld[k].article.t = "str"}}

(* C22: every valid ISO-8601 date string of a page, date-time or date-only,
   is read by the meta-tag parser and by the structured-data parser as the
   same calendar date, the one written, with a trailing UTC marker as well
   as without it. *)
C22_IsoMarkerInvariance ==
    (dt.done /\ dt.page.fetch = "ok") =>
        \A s \in PageDateStrings(dt.page.doc) : ValidIso(s) => BothParsersReadIso(s)

MonthNames ==
    {"jan", "feb", "mar", "apr", "may", "jun", "jul", "aug", "sep", "oct", "nov", "dec"}

\* the groups of a match of a numeric pattern are a year in 1900..2100, a
\* month in 1..12 and a day in 1..31
NumericMatchValidates(g) ==
    /\ g # NoMatch
    /\ 1900 <= g[1] /\ g[1] <= 2100
    /\ g[2] \in 1..12
    /\ g[3] \in 1..31

\* the same for the pattern with a three-letter month name
NamedMatchValidates(g) ==
    /\ g # NoMatch
    /\ 1900 <= g[1] /\ g[1] <= 2100
    /\ g[2] \in MonthNames
    /\ g[3] \in 1..31

(* C24: the url strategy returns a date only from a pattern match that
   validates: a year in 1900..2100, a month that is a number in 1..12 or a
   three-letter month name, a day in 1..31, and the date returned is the one
   that match writes. A url none of whose matches validates yields no date
   from this strategy. *)
C24_UrlDateOnlyFromValidatedMatch ==
    (dt.done /\ dt.page.fetch = "ok" /\ dt.engine.evaluated = <<"url">>) =>
        LET m == UrlMatches(dt.url)
            d == dt.engine.result.date
        IN  \/ \E g \in {m.p1, m.p2, m.p3, m.bbc} : NumericMatchValidates(g) /\ d = g
            \/ /\ NamedMatchValidates(m.p4)
               /\ d = <<m.p4[1], month_abbr(m.p4[2]), m.p4[3]>>

----------------------------------------------------------------------------
(* scraper.py: main(), with get_article_urls and scrape_source *)

\* requests.get(base_url, headers=headers) passes no timeout
NoTimeout == 0

\* requests.get against a server that answers a page ("ok"), answers an error
\* status or refuses ("error"), or never answers ("silent"): without a
\* timeout the call on a silent server does not return
RequestsGet(timeout, answer) ==
    IF answer = "silent"
    THEN (IF timeout = NoTimeout THEN "blocked" ELSE "timeout")
    ELSE answer

Min(a, b) == IF a < b THEN a ELSE b

SeqToSet(q) == {q[i] : i \in 1..Len(q)}

\* the lists that hold each element of S once
ListsOfSet(S) ==
    {q \in [1..Cardinality(S) -> S] : SeqToSet(q) = S}

\* the loop of get_article_urls over the links found: a url is appended per
\* link until the list holds source_max_articles of them
UrlLoop(links, source_max_articles) ==
    IF source_max_articles > 0
    THEN SubSeq(links, 1, Min(Len(links), source_max_articles))
    ELSE links

get_article_urls_NoCap(links, source_max_articles, fetched) ==
    ListsOfSet(SeqToSet(IF fetched = "ok" THEN links ELSE <<>>))

\* get_article_urls: the lists list(set(urls)) can be (a set has no order),
\* cut to source_max_articles; a failed fetch leaves urls empty
get_article_urls(links, source_max_articles, fetched) ==
    LET found == IF fetched = "ok" THEN UrlLoop(links, source_max_articles) ELSE <<>>
    IN  {IF source_max_articles > 0 /\ Len(u) > source_max_articles
         THEN SubSeq(u, 1, source_max_articles) ELSE u :
            u \in ListsOfSet(SeqToSet(found))}

\* source_config.get('max_articles', settings.get('max_articles_per_source'));
\* 0 stands for None
MaxArticles(source) ==
    IF source.max_articles # 0 THEN source.max_articles ELSE cfg.max_articles_per_source

UpdateExisting_Skipped(d, articles) == d

\* existing_articles[article['url']] = article for every article
RECURSIVE UpdateExisting(_, _)
UpdateExisting(d, articles) ==
    IF articles = <<>> THEN d
    ELSE UpdateExisting(DictSet(d, Head(articles)["url"], Head(articles)), Tail(articles))

SourceExceptionAborts == "abort"

\* except Exception as e: logger.error(...) inside the loop over the sources:
\* the loop goes on with the next source
SourceException == "next_source"

\* settings.setdefault('request_delay', 1.0)
RequestDelay == 1

\* no article was fetched yet in the current source
NoFetchYet == -1

SleepReached_RecordOnly(kind, at_cap) == kind = "record" /\ ~at_cap

\* whether a pass of the loop over the urls, ending with no record ("none")
\* or with one ("record"), gets to time.sleep: it does unless it leaves the
\* loop at the cap (break)
SleepReached(kind, at_cap) == ~at_cap

\* seconds waited after the fetch of a pass, by time.sleep(request_delay)
Slept(kind, at_cap) == IF SleepReached(kind, at_cap) THEN cfg.request_delay ELSE 0

\* if max_articles and len(source_articles) >= max_articles
AtCap(sa, cap) == cap > 0 /\ Len(sa) >= cap

\* documents a server can answer with
GoodDoc ==
    Doc(<<>>, <<Meta(meta_tags[1], Iso(<<2024, 1, 5>>, 12, FALSE))>>, <<>>, <<>>, "t", "c1")

OldDoc ==
    Doc(<<>>, <<>>, <<DateStr("ymd", <<2023, 1, 1>>, 0, FALSE)>>, <<>>, "t", "c1")

UndatedDoc == Doc(<<>>, <<>>, <<>>, <<>>, "t", "c1")

YearOneDoc ==
    Doc(<<>>, <<Meta(meta_tags[1], Iso(<<1, 1, 1>>, 0, TRUE))>>, <<>>, <<>>, "t", "c1")

Servers ==
    {[answer |-> "ok", doc |-> d] : d \in {GoodDoc, OldDoc, UndatedDoc, YearOneDoc}}
    \cup {[answer |-> a, doc |-> UndatedDoc] : a \in {"error", "silent"}}

SourceConfigs ==
    {[links |-> l, max_articles |-> m] :
        l \in UNION {[1..n -> Urls] : n \in 0..MaxLinks}, m \in {0, 1}}

RunFiles ==
    {NoFile, ToCsv(AddRequiredColumns(DataFrame(
                 <<[FullRecord("u1", "c0") EXCEPT !.date = "2024-01-05"]>>)))}

\* get_settings always sets start_date. The run is modelled on a platform
\* whose strftime does not pad the year: on one that pads, the page dated in
\* the year 1 is dropped by the cutoff like any old page, which the run on
\* OldDoc already covers
Configs ==
    {[sources |-> ss, save_interval |-> n, start_date |-> <<2023, 6, 1>>,
      max_articles_per_source |-> g, pads |-> FALSE,
      request_delay |-> RequestDelay] :
        ss \in UNION {[1..k -> SourceConfigs] : k \in 0..MaxSources},
        n \in 0..MaxInterval, g \in {0, 1}}

SourceName(i) == IF i = 1 THEN "s1" ELSE "s" \o ToString(i)

Init ==
    /\ file \in RunFiles
    /\ cfg \in Configs
    /\ existing_articles = <<>>
    /\ api = Unused
    /\ dt = Unused
    /\ lk = Unused
    /\ wk = Unused
    /\ ct = Unused
    /\ hd = Unused
    /\ pc = "start"
    /\ si = 1
    /\ urls = <<>>
    /\ source_articles = <<>>
    /\ all_articles = <<>>
    /\ articles_since_save = 0
    /\ exit_code = -1
    /\ hist = [file0 |-> file, assembled |-> {}, load_failed |-> FALSE,
               write_failed |-> FALSE, processed |-> {}, raised |-> {},
               listing |-> "none", since_fetch |-> NoFetchYet,
               failed_flush |-> {}, later_flush_ok |-> FALSE]

\* if not sources: return 1
NoSources ==
    /\ pc = "start"
    /\ cfg.sources = <<>>
    /\ pc' = "done"
    /\ exit_code' = 1
    /\ UNCHANGED <<file, existing_articles, api, dt, lk, wk, ct, hd, cfg, si, urls, source_articles,
                   all_articles, articles_since_save, hist>>

\* existing_articles = load_existing_articles(output_csv)
LoadExisting ==
    /\ pc = "start"
    /\ cfg.sources # <<>>
    /\ \E readOk \in BOOLEAN :
         /\ ~readOk => file.exists /\ file.rows # <<>>
         /\ existing_articles' = load_existing_articles(file, readOk)
         /\ hist' = [hist EXCEPT !.load_failed = ~readOk]
    /\ pc' = "source"
    /\ UNCHANGED <<file, api, dt, lk, wk, ct, hd, cfg, si, urls, source_articles, all_articles,
                   articles_since_save, exit_code>>

\* the call of get_article_urls for the next source, in main() when
\* save_interval > 0 and in scrape_source otherwise
Listing ==
    /\ pc = "source"
    /\ si <= Len(cfg.sources)
    /\ \E answer \in {"ok", "error", "silent"} :
         LET fetched == RequestsGet(NoTimeout, answer) IN
         IF fetched = "blocked"
         THEN /\ pc' = "blocked"
              /\ UNCHANGED <<urls, source_articles, hist>>
         ELSE /\ pc' = "articles"
              /\ urls' \in get_article_urls(cfg.sources[si].links,
                                            MaxArticles(cfg.sources[si]), fetched)
              /\ source_articles' = <<>>
              /\ hist' = [hist EXCEPT
                            !.processed = @ \cup {si},
                            !.listing = IF fetched = "ok" THEN "ok" ELSE "failed",
                            !.since_fetch = NoFetchYet]
    /\ UNCHANGED <<file, existing_articles, api, dt, lk, wk, ct, hd, cfg, si, all_articles,
                   articles_since_save, exit_code>>

\* an exception leaves the body of the loop over the sources
RaiseInSource ==
    /\ hist' = [hist EXCEPT !.raised = @ \cup {si}, !.listing = "none",
                            !.since_fetch = NoFetchYet]
    /\ IF SourceException = "next_source"
       THEN pc' = "source" /\ si' = si + 1 /\ exit_code' = exit_code
       ELSE pc' = "done" /\ si' = si /\ exit_code' = 1
    /\ urls' = <<>>
    /\ source_articles' = <<>>

\* the url was not assembled into a record: time.sleep, then the next url
SkipArticle ==
    /\ urls' = Tail(urls)
    /\ hist' = [hist EXCEPT !.since_fetch = Slept("none", FALSE)]
    /\ UNCHANGED <<source_articles, pc, si, exit_code>>

\* the loop ends at the cap (break), else goes on with the next url
AfterRecord(sa, cap) ==
    /\ source_articles' = sa
    /\ urls' = IF AtCap(sa, cap) THEN <<>> ELSE Tail(urls)
    /\ UNCHANGED <<pc, si, exit_code>>

\* history of the save_articles calls: the urls that were to be inserted by a
\* call whose write failed, and whether a call made after such a failure
\* ended without a write error
FlushHistory(called, articles, wr) ==
    [failed_flush |->
        IF called /\ wr # "ok"
        THEN hist.failed_flush \cup
             {a["url"] : a \in SeqToSet(NewArticles(articles, existing_articles))}
        ELSE hist.failed_flush,
     later_flush_ok |->
        IF called THEN wr = "ok" /\ hist.failed_flush # {} ELSE hist.later_flush_ok]

\* main(), save_interval > 0: the record is appended; at the interval
\* save_articles is called and the dict is updated with all_articles
AppendAndCheckpoint(rec, all, checkpoint, saved, wr) ==
    /\ wr # "ok" => checkpoint /\ NewArticles(all, existing_articles) # <<>>
    /\ all_articles' = all
    /\ file' = IF checkpoint THEN saved.file ELSE file
    /\ existing_articles' = IF checkpoint THEN UpdateExisting(existing_articles, all)
                            ELSE existing_articles
    /\ articles_since_save' = IF checkpoint THEN 0 ELSE articles_since_save + 1
    /\ hist' = [hist EXCEPT !.assembled = @ \cup {rec["url"]},
                            !.write_failed = @ \/ wr # "ok",
                            !.failed_flush = FlushHistory(checkpoint, all, wr).failed_flush,
                            !.later_flush_ok = FlushHistory(checkpoint, all, wr).later_flush_ok,
                            !.since_fetch =
                                Slept("record", AtCap(Append(source_articles, rec),
                                                      MaxArticles(cfg.sources[si])))]
    /\ AfterRecord(Append(source_articles, rec), MaxArticles(cfg.sources[si]))

ArticleBody(article_data, wr) ==
    IF article_data.kind = "raise"
    THEN /\ RaiseInSource
         /\ wr = "ok"
         /\ UNCHANGED <<file, existing_articles, all_articles, articles_since_save>>
    ELSE IF article_data.kind = "none"
    THEN /\ SkipArticle
         /\ wr = "ok"
         /\ UNCHANGED <<file, existing_articles, all_articles, articles_since_save>>
    ELSE AppendAndCheckpoint(article_data.rec, Append(all_articles, article_data.rec),
             articles_since_save + 1 >= cfg.save_interval,
             save_articles(Append(all_articles, article_data.rec), file,
                           existing_articles, wr),
             wr)

\* the page requests.get(url, headers=headers, timeout=TIMEOUT) answers
FetchPage(server) == [fetch |-> RequestsGet(TIMEOUT, server.answer), doc |-> server.doc]

\* one pass of "for url in urls" in main(), save_interval > 0
ArticleStep ==
    /\ pc = "articles"
    /\ cfg.save_interval > 0
    /\ urls # <<>>
    /\ \E server \in Servers, wr \in WriteOutcomes :
         ArticleBody(extract_article(Head(urls), SourceName(si), FetchPage(server),
                                     cfg.start_date, cfg.pads),
                     wr)
    /\ UNCHANGED <<api, dt, lk, wk, ct, hd, cfg>>

ScrapeBody(article_data) ==
    IF article_data.kind = "raise" THEN RaiseInSource
    ELSE IF article_data.kind = "none" THEN SkipArticle
    ELSE /\ hist' = [hist EXCEPT
                        !.assembled = @ \cup {article_data.rec["url"]},
                        !.since_fetch =
                            Slept("record", AtCap(Append(source_articles, article_data.rec),
                                                  MaxArticles(cfg.sources[si])))]
         /\ AfterRecord(Append(source_articles, article_data.rec),
                        MaxArticles(cfg.sources[si]))

\* one pass of "for url in urls" in scrape_source, save_interval = 0
ScrapeStep ==
    /\ pc = "articles"
    /\ cfg.save_interval = 0
    /\ urls # <<>>
    /\ \E server \in Servers :
         ScrapeBody(extract_article(Head(urls), SourceName(si), FetchPage(server),
                                    cfg.start_date, cfg.pads))
    /\ UNCHANGED <<file, existing_articles, api, dt, lk, wk, ct, hd, cfg, all_articles, articles_since_save>>

\* the loop over the urls is over: scrape_source returns its articles, which
\* main() appends to all_articles (save_interval = 0)
EndSource ==
    /\ pc = "articles"
    /\ urls = <<>>
    /\ all_articles' = IF cfg.save_interval = 0 THEN all_articles \o source_articles
                       ELSE all_articles
    /\ source_articles' = <<>>
    /\ pc' = "source"
    /\ si' = si + 1
    /\ hist' = [hist EXCEPT !.listing = "none", !.since_fetch = NoFetchYet]
    /\ UNCHANGED <<file, existing_articles, api, dt, lk, wk, ct, hd, cfg, urls, articles_since_save,
                   exit_code>>

ReturnAfterRun_FailuresCount(write_failed, sources_failed) ==
    IF write_failed \/ sources_failed THEN 1 ELSE 0

\* return 0 at the end of main(): whatever writes or sources failed
ReturnAfterRun(write_failed, sources_failed) == 0

FinalBody(due, saved, wr) ==
    /\ wr # "ok" => due /\ NewArticles(all_articles, existing_articles) # <<>>
    /\ file' = IF due THEN saved.file ELSE file
    /\ hist' = [hist EXCEPT
                    !.write_failed = @ \/ wr # "ok",
                    !.failed_flush = FlushHistory(due, all_articles, wr).failed_flush,
                    !.later_flush_ok = FlushHistory(due, all_articles, wr).later_flush_ok]
    /\ exit_code' = ReturnAfterRun(hist.write_failed \/ wr # "ok", hist.raised # {})

\* after the loop over the sources: the save of the remaining articles, return 0
FinalSave ==
    /\ pc = "source"
    /\ si > Len(cfg.sources)
    /\ \E wr \in WriteOutcomes :
         FinalBody(all_articles # <<>> /\ (articles_since_save > 0 \/ cfg.save_interval = 0),
                   save_articles(all_articles, file, existing_articles, wr), wr)
    /\ pc' = "done"
    /\ UNCHANGED <<existing_articles, api, dt, lk, wk, ct, hd, cfg, si, urls, source_articles,
                   all_articles, articles_since_save>>

Next ==
    \/ NoSources
    \/ LoadExisting
    \/ Listing
    \/ ArticleStep
    \/ ScrapeStep
    \/ EndSource
    \/ FinalSave

Spec == Init /\ [][Next]_vars

----------------------------------------------------------------------------
(* Properties of the run *)

\* the urls of the rows of a CSV file
FileUrls(f) == {f.rows[i]["url"] : i \in 1..Len(f.rows)}

(* C1: at every point of a run, after whatever checkpoint saves and final
   save have been made, no two rows of the CSV file have the same url, also
   when all_articles holds one url more than once (the same article listed
   by two sources). *)
C1_OneRowPerUrl ==
    \A i, j \in 1..Len(file.rows) :
        file.rows[i]["url"] = file.rows[j]["url"] => i = j

(* C2: when the run has ended, the file was read at the start and no write
   failed, every row of the file whose url was in the file before the run is
   field for field the row the file held before the run, also when that url
   was fetched and assembled again during the run. *)
C2_StoredRecordNotOverwritten ==
    (pc = "done" /\ ~hist.load_failed /\ ~hist.write_failed) =>
        \A i \in 1..Len(hist.file0.rows), j \in 1..Len(file.rows) :
            file.rows[j]["url"] = hist.file0.rows[i]["url"]
                => file.rows[j] = hist.file0.rows[i]

(* C5: when main() has returned and no write failed, the urls of the rows of
   the file are the urls the file held when the run started together with
   the urls of every record assembled during the run, for save_interval 0
   as for a positive one and for every number of sources. *)
C5_FileIsStartPlusAssembled ==
    (pc = "done" /\ ~hist.write_failed) =>
        FileUrls(file) = FileUrls(hist.file0) \cup hist.assembled

(* C26: no run loses persisted data: when main() has returned and no write
   failed, every url that had a row in the file before the run has a row in
   the file after it, also when the read of the file failed at the start of
   the run and the run flushed new records. *)
C26_NoPersistedUrlLost ==
    (pc = "done" /\ ~hist.write_failed) =>
        FileUrls(hist.file0) \subseteq FileUrls(file)

(* C9: a failure in one source does not abort the run. A failed fetch of the
   listing page leaves the source with an empty list of urls and raises
   nothing; a source in which an exception was raised is a source that was
   being processed, and the loop goes on after it: when main() has returned
   with sources configured, every configured source has been processed and
   the exit code is 0. *)
C9_SourceFailureConfined ==
    /\ (pc = "articles" /\ hist.listing = "failed") =>
            (urls = <<>> /\ si \notin hist.raised)
    /\ (pc \in {"source", "articles", "done", "blocked"}) =>
            hist.raised \subseteq hist.processed
    /\ (pc = "done" /\ cfg.sources # <<>>) =>
            (hist.processed = 1..Len(cfg.sources) /\ exit_code = 0)

\* a run of two sources in save-once mode: an exception was raised in the
\* first, the second was processed and its record is what the file holds
C9_Witness ==
    /\ pc = "done" /\ exit_code = 0
    /\ cfg.save_interval = 0 /\ Len(cfg.sources) = 2
    /\ hist.raised = {1} /\ hist.processed = {1, 2}
    /\ hist.file0 = NoFile /\ Len(file.rows) = 1
    /\ file.rows[1]["source"] = SourceName(2)

(* C11: within a source, every article fetch after the first comes after a
   time.sleep of the configured request_delay that followed the fetch before
   it: whenever the loop over the urls is about to fetch the next url and an
   article of this source was fetched before, the time slept since that
   fetch is request_delay; in main() (save_interval > 0) as in scrape_source,
   and also when the earlier fetch gave no record. *)
C11_DelayBetweenFetches ==
    (pc = "articles" /\ urls # <<>> /\ hist.since_fetch # NoFetchYet) =>
        hist.since_fetch = cfg.request_delay

\* the second url of a source is about to be fetched after a first fetch
\* that gave no record, and request_delay was slept in between
C11_Witness ==
    /\ pc = "articles" /\ urls # <<>>
    /\ source_articles = <<>> /\ hist.assembled = {}
    /\ hist.since_fetch = RequestDelay

(* C12: when a cap applies to the source being processed (its own
   max_articles, else the global max_articles_per_source), the list of urls
   get_article_urls returned for it and the records assembled for it in the
   run are never more than the cap. *)
C12_CapBoundsUrlsAndRecords ==
    (pc = "articles") =>
        LET own == cfg.sources[si].max_articles
            cap == IF own # 0 THEN own ELSE cfg.max_articles_per_source
        IN  cap > 0 => /\ Len(urls) <= cap
                       /\ Len(source_articles) <= cap
                       /\ Len(urls) + Len(source_articles) <= cap

\* a source with two links and no max_articles of its own, under the global
\* cap 1: one record was assembled and the loop over its urls is over
C12_Witness ==
    /\ pc = "articles"
    /\ cfg.sources[si].max_articles = 0 /\ cfg.max_articles_per_source = 1
    /\ cfg.sources[si].links = <<"u1", "u2">>
    /\ Len(source_articles) = 1 /\ urls = <<>>

\* the number of rows of a CSV file with the url u
RowCount(f, u) == Cardinality({i \in 1..Len(f.rows) : f.rows[i]["url"] = u})

\* with save_interval > 0, between two passes of the loop: fewer than
\* save_interval articles were assembled since the last checkpoint, and every
\* article assembled before that checkpoint, as every url of a file written in
\* this run, is a key of existing_articles
CheckpointsKeptUp ==
    (cfg.save_interval > 0 /\ pc \in {"source", "articles"}) =>
        /\ articles_since_save < cfg.save_interval
        /\ \A k \in 1..(Len(all_articles) - articles_since_save) :
               all_articles[k]["url"] \in DictKeys(existing_articles)
        /\ file # hist.file0 => FileUrls(file) \subseteq DictKeys(existing_articles)

\* a step of the run with save_interval > 0 that writes the file leaves one
\* row for every url that was a key of existing_articles before the step
FlushedUrlNotInsertedAgain ==
    (cfg.save_interval > 0 /\ file' # file /\ file'.rows # <<>>) =>
        \A u \in DictKeys(existing_articles) : RowCount(file', u) = 1

(* C13: with save_interval N > 0, save_articles is called whenever N articles
   have been assembled since the last call (the count runs on from one source
   to the next), after each checkpoint every url flushed so far is a key of
   existing_articles, and an article assembled later in the run whose url was
   already flushed does not get a second row. *)
C13_CheckpointEveryN == [](CheckpointsKeptUp) /\ [][FlushedUrlNotInsertedAgain]_vars

\* save_interval 1: the article u1 was flushed at the first checkpoint and
\* assembled again from the second source; the file has one row
C13_Witness ==
    /\ pc = "done" /\ cfg.save_interval = 1 /\ ~hist.write_failed
    /\ hist.file0 = NoFile
    /\ Len(all_articles) = 2 /\ all_articles[1]["url"] = all_articles[2]["url"]
    /\ all_articles[1]["source"] # all_articles[2]["source"]
    /\ Len(file.rows) = 1

(* C14: the records of a flush whose write failed are not lost to the run:
   once a later save_articles call of the same run (a checkpoint or the save
   at the end) has ended without a write error, every url that the failed
   flush was to insert has a row in the file. *)
C14_FailedFlushIsRetried ==
    hist.later_flush_ok => hist.failed_flush \subseteq FileUrls(file)

(* C15: main() returns a non-zero code when no valid source is configured,
   and returns 0 when at least one is configured and the run gets to its end,
   whatever sources raised, fetches failed, writes failed or articles were
   added. *)
C15_ExitCode ==
    (pc = "done") =>
        /\ cfg.sources = <<>> => exit_code # 0
        /\ cfg.sources # <<>> => exit_code = 0

\* a run that returned 0 although an exception ended a source, a write failed
\* and the file has no article
C15_Witness ==
    /\ pc = "done" /\ exit_code = 0
    /\ hist.raised # {} /\ hist.write_failed
    /\ FileUrls(file) = {}

(* C10: no fetch waits forever: main() is never stuck inside a requests.get
   call that has no timeout and whose server never answers. *)
C10_NoFetchBlocksForever == pc # "blocked"

----------------------------------------------------------------------------
(* SpecStore: a caller of the store API *)

InitStore ==
    /\ file \in StoreFiles
    /\ existing_articles \in {<<>>, load_existing_articles(file, TRUE)}
    /\ api = <<>>
    /\ dt = Unused
    /\ lk = Unused
    /\ wk = Unused
    /\ ct = Unused
    /\ hd = Unused
    /\ RunUnused

\* existing_articles = load_existing_articles(csv_path)
ApiLoad ==
    /\ Len(api) < MaxCalls
    /\ \E readOk \in BOOLEAN :
         /\ existing_articles' = load_existing_articles(file, readOk)
         /\ api' = Append(api, [op |-> "load", readOk |-> readOk])
    /\ UNCHANGED <<file, dt, lk, wk, ct, hd, runvars>>

\* save_articles(batch, csv_path, existing_articles) or, with mode "reload",
\* save_articles(batch, csv_path): existing_articles is None and is loaded
ApiSave ==
    /\ Len(api) < MaxCalls
    /\ \E batch \in StoreBatches, mode \in {"view", "reload"},
          readOk \in BOOLEAN, wr \in WriteOutcomes :
         LET view == IF mode = "reload" /\ batch # <<>>
                     THEN load_existing_articles(file, readOk)
                     ELSE existing_articles
             res == save_articles(batch, file, view, wr)
         IN  /\ mode = "view" => readOk
             /\ file' = res.file
             /\ api' = Append(api,
                    [op |-> "save", batch |-> batch, mode |-> mode, view |-> view,
                     fresh |-> (view = load_existing_articles(file, TRUE)),
                     ret |-> res.ret, wrote |-> res.wrote,
                     rowsBefore |-> Len(file.rows), rowsAfter |-> Len(res.file.rows)])
    /\ UNCHANGED <<existing_articles, dt, lk, wk, ct, hd, runvars>>

NextStore == ApiLoad \/ ApiSave

SpecStore == InitStore /\ [][NextStore]_vars

\* two consecutive save_articles calls, each of one record, with the same url,
\* the first on a view that agrees with the file and the second on that same
\* view or on a reloaded one
SameRecordTwice(i) ==
    /\ api[i].op = "save" /\ api[i + 1].op = "save"
    /\ Len(api[i].batch) = 1 /\ Len(api[i + 1].batch) = 1
    /\ api[i].batch[1]["url"] = api[i + 1].batch[1]["url"]
    /\ api[i].fresh
    /\ api[i + 1].mode = "view" => api[i + 1].view = api[i].view

(* C3: merging a record of the same url in two separate save_articles calls
   leaves at most one row more in the file than it held before the first
   call, whether the second call is given the caller's (unchanged) dict or
   reloads the dict from the file. *)
C3_TwoMergesAddAtMostOne ==
    \A i \in 1..(Len(api) - 1) :
        SameRecordTwice(i) => api[i + 1].rowsAfter <= api[i].rowsBefore + 1

\* both calls wrote: the second, on the caller's stale dict, inserted the url
\* again and the rewritten file still holds one row more than at the start
C3_Witness ==
    /\ Len(api) = 2 /\ SameRecordTwice(1)
    /\ api[1].ret = 1 /\ api[2].ret = 1 /\ api[2].mode = "view"
    /\ api[1].rowsBefore = 1 /\ api[2].rowsAfter = 2

(* C4: flush followed by load is a round trip: after a save_articles call
   that wrote the file, the reloaded dict is keyed by exactly the urls of the
   written table and every record has each of the six columns present and
   non-null, also a record that lacked a field or held the empty string. *)
C4_FlushLoadRoundTrip ==
    (api # <<>> /\ api[Len(api)].op = "save" /\ api[Len(api)].wrote # <<>>) =>
        LET wrote == api[Len(api)].wrote
            t == load_existing_articles(file, TRUE)
        IN  /\ DictKeys(t) = {wrote[j]["url"] : j \in 1..Len(wrote)}
            /\ \A j \in 1..Len(t) : \A c \in Columns :
                   c \in DOMAIN t[j].v /\ t[j].v[c] # NaN

----------------------------------------------------------------------------
(* article_scraper.py: the links of a listing page, get_article_urls with its
   predicates is_nytimes_article_url, is_bbc_article_url and
   is_guardian_article_url *)

Char(s, i) == SubSeq(s, i, i)

\* sub in s
Contains(s, sub) ==
    \E i \in 1..(Len(s) - Len(sub) + 1) : SubSeq(s, i, i + Len(sub) - 1) = sub

\* s.startswith(p), s.endswith(p)
StartsWith(s, p) == Len(s) >= Len(p) /\ SubSeq(s, 1, Len(p)) = p

EndsWith(s, p) == Len(s) >= Len(p) /\ SubSeq(s, Len(s) - Len(p) + 1, Len(s)) = p

UpperCase == "ABCDEFGHIJKLMNOPQRSTUVWXYZ"

LowerCase == "abcdefghijklmnopqrstuvwxyz"

Digits == "0123456789"

\* the characters of a string
CharsOf(s) == {Char(s, i) : i \in 1..Len(s)}

DigitChars == CharsOf(Digits)

LowerChars == CharsOf(LowerCase)

IsDigit(c) == c \in DigitChars

IsLower(c) == c \in LowerChars

LowerOf ==
    [c \in CharsOf(UpperCase) |->
        Char(LowerCase, CHOOSE i \in 1..Len(UpperCase) : Char(UpperCase, i) = c)]

LowerChar(c) == IF c \in DOMAIN LowerOf THEN LowerOf[c] ELSE c

\* s.lower()
RECURSIVE Lower(_)
Lower(s) == IF Len(s) = 0 THEN "" ELSE LowerChar(Char(s, 1)) \o Lower(SubSeq(s, 2, Len(s)))

\* one position of a pattern: "#" is \d, "@" is [a-z], any other character
\* is itself
ClassMatches(cls, c) ==
    IF cls = "#" THEN IsDigit(c) ELSE IF cls = "@" THEN IsLower(c) ELSE c = cls

MatchesAt(s, i, pat) ==
    /\ i + Len(pat) - 1 <= Len(s)
    /\ \A k \in 1..Len(pat) : ClassMatches(Char(pat, k), Char(s, i + k - 1))

\* bool(re.search(pat, s)) for a pattern of fixed length
ReSearch(pat, s) == \E i \in 1..Len(s) : MatchesAt(s, i, pat)

\* r'/\d{4}/\d{2}/\d{2}/'
date_pattern == "/####/##/##/"

\* r'/\d{4}/[a-z]{3}/\d{2}/'
guardian_date_pattern == "/####/@@@/##/"

\* bool(re.search(r'/news/[-a-z]+-\d+', url))
numeric_pattern(url) ==
    \E i \in 1..Len(url), j \in 1..Len(url) :
        /\ MatchesAt(url, i, "/news/")
        /\ j >= i + 7
        /\ \A k \in (i + 6)..(j - 1) : IsLower(Char(url, k)) \/ Char(url, k) = "-"
        /\ Char(url, j) = "-"
        /\ j + 1 <= Len(url) /\ IsDigit(Char(url, j + 1))

is_nytimes_article_url_DateFirst(url) ==
    IF ReSearch(date_pattern, url) THEN TRUE
    ELSE IF \/ Contains(url, "?page=") \/ EndsWith(url, "/section/politics")
            \/ EndsWith(url, "/section/world") \/ EndsWith(url, "/section/business")
         THEN FALSE
    ELSE IF Contains(url, "/video/") THEN FALSE
    ELSE Contains(url, "/es/") /\ Contains(url, "/espanol/")

is_nytimes_article_url(url) ==
    IF \/ Contains(url, "?page=") \/ EndsWith(url, "/section/politics")
       \/ EndsWith(url, "/section/world") \/ EndsWith(url, "/section/business")
    THEN FALSE
    ELSE IF Contains(url, "/video/") THEN FALSE
    ELSE IF Contains(url, "/es/") /\ Contains(url, "/espanol/") THEN TRUE
    ELSE ReSearch(date_pattern, url)

is_bbc_article_url(url) ==
    IF \/ Contains(url, "/topics/") \/ Contains(url, "/tags/")
       \/ Contains(url, "/live/") \/ Contains(url, "/programmes/")
    THEN FALSE
    ELSE IF Contains(url, "/av/") THEN FALSE
    ELSE IF \/ Contains(url, "/news/articles/") \/ Contains(url, "/news/uk-")
            \/ Contains(url, "/news/world-") \/ Contains(url, "/news/business-")
         THEN TRUE
    ELSE numeric_pattern(url)

\* url.rstrip('/')
RECURSIVE RStripSlash(_)
RStripSlash(s) ==
    IF Len(s) > 0 /\ Char(s, Len(s)) = "/" THEN RStripSlash(SubSeq(s, 1, Len(s) - 1)) ELSE s

\* the positions of "/" in s
Slashes(s) == {i \in 1..Len(s) : Char(s, i) = "/"}

\* segments = url.rstrip('/').split('/'); len(segments) > 4 and '-' in segments[-1]
SlugSegment(url) ==
    LET u == RStripSlash(url)
        cut == Slashes(u)
        last == IF cut = {} THEN u
                ELSE SubSeq(u, (CHOOSE i \in cut : \A j \in cut : j <= i) + 1, Len(u))
    IN  Cardinality(cut) + 1 > 4 /\ Contains(last, "-")

is_guardian_article_url(url) ==
    IF \/ Contains(url, "/help/") \/ Contains(url, "/about/")
       \/ Contains(url, "/info/") \/ Contains(url, "/profile/")
    THEN FALSE
    ELSE IF EndsWith(url, "/world") \/ EndsWith(url, "/politics") \/ EndsWith(url, "/business")
    THEN FALSE
    ELSE IF Contains(url, "/search?") THEN FALSE
    ELSE IF \/ Contains(url, "/static/") \/ Contains(url, "/images/")
            \/ Contains(url, "/media/") \/ Contains(url, "/video/")
    THEN FALSE
    ELSE IF \/ Contains(url, "/sign-up/") \/ Contains(url, "/subscribe/")
            \/ Contains(url, "/newsletters/")
    THEN FALSE
    ELSE IF ReSearch(guardian_date_pattern, url) THEN TRUE
    ELSE IF ReSearch(date_pattern, url) THEN TRUE
    ELSE SlugSegment(url)

\* the branch of get_article_urls for the source name: whether the url is
\* appended
LinkAccepted(source_name, full_url) ==
    LET name == Lower(source_name) IN
    IF name = "cnn" THEN ReSearch(date_pattern, full_url)
    ELSE IF StartsWith(name, "nytimes") THEN is_nytimes_article_url(full_url)
    ELSE IF StartsWith(name, "bbc") THEN is_bbc_article_url(full_url)
    ELSE IF Contains(name, "guardian") THEN is_guardian_article_url(full_url)
    ELSE TRUE

\* scheme://host of an absolute url
Origin(base_url) ==
    LET start == CHOOSE i \in 1..Len(base_url) : MatchesAt(base_url, i, "://")
        after == {i \in Slashes(base_url) : i > start + 2}
    IN  IF after = {} THEN base_url
        ELSE SubSeq(base_url, 1, (CHOOSE i \in after : \A j \in after : i <= j) - 1)

\* urljoin(base_url, href) for an href that is a path from the root, and for
\* one that has a scheme of its own
urljoin(base_url, href) ==
    IF StartsWith(href, "/") THEN Origin(base_url) \o href ELSE href

\* if not href.startswith(('http://', 'https://')): urljoin, else href
FullUrl(base_url, href) ==
    IF StartsWith(href, "http://") \/ StartsWith(href, "https://") THEN href
    ELSE urljoin(base_url, href)

\* link.get('href') of an anchor with no href attribute
NoHref == "<None>"

\* if href: ... with the two skipped kinds of href
HrefKept(href) ==
    /\ href # NoHref /\ href # ""
    /\ ~StartsWith(href, "#") /\ ~StartsWith(href, "javascript:")

\* the loop over all_links without its cap: the urls appended, in order
RECURSIVE ClassifyLinks(_, _, _)
ClassifyLinks(hrefs, base_url, source_name) ==
    IF hrefs = <<>> THEN <<>>
    ELSE LET href == Head(hrefs)
             rest == ClassifyLinks(Tail(hrefs), base_url, source_name)
         IN  IF HrefKept(href) /\ LinkAccepted(source_name, FullUrl(base_url, href))
             THEN <<FullUrl(base_url, href)>> \o rest
             ELSE rest

----------------------------------------------------------------------------
(* SpecLinks: get_article_urls called on one listing page *)

MaxHrefs == 3             \* anchors the selectors match on the listing page
MaxCap == 2               \* largest max_articles
MaxInvocations == 2       \* calls of get_article_urls on the same listing

LinkBase == "https://n.example/news"

\* href attributes of the anchors of a listing page; NoHref stands for an
\* anchor with no href and for one with an empty href ("if href:")
LinkHrefs ==
    {"#top", "javascript:void(0)", NoHref,
     "/2024/05/01/world/story-one",
     "https://n.example/video/2024/05/01/clip",
     "/news/articles/c1234",
     "/news/uk-politics-123/live/"}

LinkSourceNames == {"CNN", "nytimes", "bbc_news", "the_guardian", "reuters"}

LinkListings == UNION {[1..n -> LinkHrefs] : n \in 0..MaxHrefs}

InitLinks ==
    /\ file = NoFile
    /\ existing_articles = Unused
    /\ api = Unused
    /\ dt = Unused
    /\ wk = Unused
    /\ ct = Unused
    /\ hd = Unused
    /\ RunUnused
    /\ \E name \in LinkSourceNames, hrefs \in LinkListings, cap \in 0..MaxCap :
         lk = [source_name |-> name, base_url |-> LinkBase, hrefs |-> hrefs,
               max_articles |-> cap, calls |-> <<>>]

\* urls = get_article_urls(source_name, source_config, ...): the listing page
\* is fetched (with no timeout) and its links are classified; the order of
\* list(set(urls)) is one the interpreter chooses
GetArticleUrls ==
    /\ Len(lk.calls) < MaxInvocations
    /\ \A i \in 1..Len(lk.calls) : lk.calls[i].fetched # "blocked"
    /\ \E answer \in {"ok", "error", "silent"} :
         LET fetched == RequestsGet(NoTimeout, answer) IN
         \E out \in get_article_urls(
                        ClassifyLinks(lk.hrefs, lk.base_url, lk.source_name),
                        lk.max_articles, fetched) :
            lk' = [lk EXCEPT !.calls = Append(@, [fetched |-> fetched, urls |-> out])]
    /\ UNCHANGED <<file, existing_articles, api, dt, wk, ct, hd, runvars>>

NextLinks == GetArticleUrls

SpecLinks == InitLinks /\ [][NextLinks]_vars

\* the calls that returned with the listing page fetched
ReturnedCalls == {i \in 1..Len(lk.calls) : lk.calls[i].fetched = "ok"}

\* the resolved urls of the anchors whose href is present, is neither
\* fragment-only nor a javascript: link, and passes the source's predicate
ClassifiedUrls ==
    {FullUrl(lk.base_url, lk.hrefs[i]) :
        i \in {j \in 1..Len(lk.hrefs) :
                 /\ HrefKept(lk.hrefs[j])
                 /\ LinkAccepted(lk.source_name, FullUrl(lk.base_url, lk.hrefs[j]))}}

\* path markers the predicate of a publisher excludes
ExclusionMarkers(source_name) ==
    LET name == Lower(source_name) IN
    IF StartsWith(name, "nytimes") THEN {"?page=", "/video/"}
    ELSE IF StartsWith(name, "bbc")
    THEN {"/topics/", "/tags/", "/live/", "/programmes/", "/av/"}
    ELSE IF Contains(name, "guardian")
    THEN {"/help/", "/about/", "/info/", "/profile/", "/search?", "/static/",
          "/images/", "/media/", "/video/", "/sign-up/", "/subscribe/", "/newsletters/"}
    ELSE {}

\* out holds, each once, urls of the set classified (all of them when no cap
\* is set), none of them fragment-only, a javascript: link or one with a
\* marker the publisher's predicate excludes
ReturnsAcceptedLinks(out, classified) ==
    /\ SeqToSet(out) \subseteq classified
    /\ lk.max_articles = 0 => SeqToSet(out) = classified
    /\ Len(out) = Cardinality(SeqToSet(out))
    /\ \A k \in 1..Len(out) :
          /\ ~StartsWith(out[k], "#") /\ ~StartsWith(out[k], "javascript:")
          /\ \A m \in ExclusionMarkers(lk.source_name) : ~Contains(out[k], m)

(* C16: get_article_urls returns, each once, the resolved urls of the anchors
   that have an href which is neither fragment-only nor a javascript: link
   and that pass the predicate chosen by the source name (all of them when no
   cap is set, none but them under a cap); a url with a marker that the
   publisher's predicate excludes is never returned, also when it has a date
   in its path. *)
C16_ClassifierReturnsAcceptedLinks ==
    \A i \in ReturnedCalls : ReturnsAcceptedLinks(lk.calls[i].urls, ClassifiedUrls)

\* a listing with a fragment-only link, a link the nytimes predicate excludes
\* (a video page with a date in its path) and an article link gave one url
C16_Witness ==
    /\ lk.source_name = "nytimes" /\ lk.max_articles = 0
    /\ lk.hrefs = <<"#top", "https://n.example/video/2024/05/01/clip",
                    "/2024/05/01/world/story-one">>
    /\ Len(lk.calls) = 1 /\ lk.calls[1].fetched = "ok"
    /\ lk.calls[1].urls = <<"https://n.example/2024/05/01/world/story-one">>

(* C18: the cap is applied after deduplication: when the listing has at least
   max_articles distinct classified urls, get_article_urls returns exactly
   max_articles distinct urls, also when a link occurs more than once on the
   page. *)
C18_CapAfterDedup ==
    \A i \in ReturnedCalls :
        (lk.max_articles > 0 /\ Cardinality(ClassifiedUrls) >= lk.max_articles) =>
            /\ Len(lk.calls[i].urls) = lk.max_articles
            /\ Cardinality(SeqToSet(lk.calls[i].urls)) = lk.max_articles

\* the place of the first occurrence of u in the sequence q
FirstIndex(q, u) == CHOOSE i \in 1..Len(q) : q[i] = u /\ \A j \in 1..(i - 1) : q[j] # u

(* C19: get_article_urls is deterministic and keeps the order of the page:
   two calls on the same listing and source return the same list, and the
   urls of a returned list are in the order of their first occurrence among
   the anchors. *)
C19_DeterministicFirstOccurrenceOrder ==
    LET seen == ClassifyLinks(lk.hrefs, lk.base_url, lk.source_name) IN
    /\ \A i, j \in ReturnedCalls : lk.calls[i].urls = lk.calls[j].urls
    /\ \A i \in ReturnedCalls :
          \A a, b \in 1..Len(lk.calls[i].urls) :
              a < b => FirstIndex(seen, lk.calls[i].urls[a])
                           < FirstIndex(seen, lk.calls[i].urls[b])

----------------------------------------------------------------------------
(* SpecWorkers: save_articles(articles, csv_path) called by several workers at
   once on the same file. The function takes no lock: between its read of the
   file (load_existing_articles and the filter) and its to_csv another call
   can read or write the file. *)

MaxWorkers == 2

Workers == 1..MaxWorkers

WorkerBatches == {<<FullRecord(u, c)>> : u \in Urls, c \in {"c1", "c2"}}

WorkerFiles ==
    {NoFile, ToCsv(AddRequiredColumns(DataFrame(<<FullRecord("u1", "c0")>>)))}

InitWorkers ==
    /\ file \in WorkerFiles
    /\ existing_articles = Unused
    /\ api = Unused
    /\ dt = Unused
    /\ lk = Unused
    /\ ct = Unused
    /\ hd = Unused
    /\ RunUnused
    /\ wk \in [Workers -> {[pc |-> "called", articles |-> b, existing |-> <<>>] :
                              b \in WorkerBatches}]

\* existing_articles = load_existing_articles(csv_path), then the filter of
\* new_articles against it
WorkerLoad(w) ==
    /\ wk[w].pc = "called"
    /\ wk' = [wk EXCEPT ![w].pc = "loaded",
                        ![w].existing = load_existing_articles(file, TRUE)]
    /\ UNCHANGED <<file, existing_articles, api, dt, lk, ct, hd, runvars>>

\* df.to_csv(csv_path): the file is rewritten from the dict this call loaded
\* and its new articles
WorkerWrite(w) ==
    /\ wk[w].pc = "loaded"
    /\ file' = save_articles(wk[w].articles, file, wk[w].existing, "ok").file
    /\ wk' = [wk EXCEPT ![w].pc = "returned"]
    /\ UNCHANGED <<existing_articles, api, dt, lk, ct, hd, runvars>>

NextWorkers == \E w \in Workers : WorkerLoad(w) \/ WorkerWrite(w)

SpecWorkers == InitWorkers /\ [][NextWorkers]_vars

(* C17: save_articles can be called by several workers at once: when all the
   calls have returned, every url has at most one row in the file and the
   record every worker merged, as every record the file held before, has a
   row in it; none is lost to the write of another worker. *)
C17_ConcurrentMergesSerialized ==
    (\A w \in Workers : wk[w].pc = "returned") =>
        /\ \A u \in FileUrls(file) : RowCount(file, u) = 1
        /\ \A w \in Workers : \A k \in 1..Len(wk[w].articles) :
               wk[w].articles[k]["url"] \in FileUrls(file)

----------------------------------------------------------------------------
(* SpecContent: the content field of extract_article_bs4. A document is the
   sequence of its p elements in document order; a p element is
   [text, selected, in_article, div_class, in_chrome]: its text, whether the
   ruleset's content_selector matches it, whether it has an article ancestor,
   the class attribute of its div ancestor ("" when it has none) and whether
   it has a nav, footer or header ancestor. *)

MaxParagraphs == 2

NoSelector == "<None>"

ShortText == "  Short text. "

LongText == "This paragraph of the story is long enough to be body text: it has more than one hundred characters in it."

Paragraph(text, selected, in_article, div_class, in_chrome) ==
    [text |-> text, selected |-> selected, in_article |-> in_article,
     div_class |-> div_class, in_chrome |-> in_chrome]

\* str.strip(): the leading and trailing white space removed
RECURSIVE Strip(_)
Strip(s) ==
    IF Len(s) = 0 THEN s
    ELSE IF SubSeq(s, 1, 1) \in {" ", "\n", "\t"} THEN Strip(SubSeq(s, 2, Len(s)))
    ELSE IF SubSeq(s, Len(s), Len(s)) \in {" ", "\n", "\t"}
    THEN Strip(SubSeq(s, 1, Len(s) - 1))
    ELSE s

\* '\n\n'.join(texts)
RECURSIVE JoinBlankLine(_)
JoinBlankLine(texts) ==
    IF texts = <<>> THEN ""
    ELSE IF Len(texts) = 1 THEN texts[1]
    ELSE texts[1] \o "\n\n" \o JoinBlankLine(Tail(texts))

\* [p.text.strip() for p in content_elements if p.text.strip()]
RECURSIVE StrippedTexts(_)
StrippedTexts(elements) ==
    IF elements = <<>> THEN <<>>
    ELSE IF Strip(Head(elements).text) # ""
    THEN <<Strip(Head(elements).text)>> \o StrippedTexts(Tail(elements))
    ELSE StrippedTexts(Tail(elements))

\* soup.select('article p')
SelectArticleP(doc) == SelectSeq(doc, LAMBDA p : p.in_article)

\* soup.select('div[class*="name"] p')
SelectDivClassP(doc, name) == SelectSeq(doc, LAMBDA p : Contains(p.div_class, name))

\* content_elements = soup.select('article p') or soup.select(
\* 'div[class*="article"] p') or soup.select('div[class*="content"] p'): the
\* first of the three lists that is not empty, the last when all are
FallbackElements(doc) ==
    IF SelectArticleP(doc) # <<>> THEN SelectArticleP(doc)
    ELSE IF SelectDivClassP(doc, "article") # <<>> THEN SelectDivClassP(doc, "article")
    ELSE SelectDivClassP(doc, "content")

\* the paragraphs of the generic approach: more than 100 characters of text
\* and no nav, footer or header ancestor
ContentParagraphs(doc) ==
    SelectSeq(doc, LAMBDA p : Len(Strip(p.text)) > 100 /\ ~p.in_chrome)

RECURSIVE Texts(_)
Texts(elements) ==
    IF elements = <<>> THEN <<>>
    ELSE <<Strip(Head(elements).text)>> \o Texts(Tail(elements))

\* the text the ruleset's selector gives
SelectorContent(doc, content_selector) ==
    IF content_selector # NoSelector /\ SelectSeq(doc, LAMBDA p : p.selected) # <<>>
    THEN JoinBlankLine(StrippedTexts(SelectSeq(doc, LAMBDA p : p.selected)))
    ELSE ""

\* the content of extract_article_bs4
extract_content(doc, content_selector) ==
    IF SelectorContent(doc, content_selector) # ""
    THEN SelectorContent(doc, content_selector)
    ELSE IF JoinBlankLine(StrippedTexts(FallbackElements(doc))) # ""
    THEN JoinBlankLine(StrippedTexts(FallbackElements(doc)))
    ELSE JoinBlankLine(Texts(ContentParagraphs(doc)))

ContentParagraphSet ==
    {Paragraph(t, s, a, d, c) :
        t \in {"", ShortText, LongText}, s \in BOOLEAN, a \in BOOLEAN,
        d \in {"", "article-body", "main-content"}, c \in BOOLEAN}

ContentDocs ==
    UNION {[1..n -> ContentParagraphSet] : n \in 0..MaxParagraphs}

InitContent ==
    /\ file = NoFile
    /\ existing_articles = Unused
    /\ api = Unused
    /\ dt = Unused
    /\ lk = Unused
    /\ wk = Unused
    /\ hd = Unused
    /\ RunUnused
    /\ \E doc \in ContentDocs, content_selector \in {NoSelector, "div.body p"} :
         ct = [doc |-> doc, content_selector |-> content_selector,
               done |-> FALSE, content |-> ""]

\* lines 243-265 of extract_article_bs4 on one document
ExtractContent ==
    /\ ~ct.done
    /\ ct' = [ct EXCEPT !.done = TRUE,
                        !.content = extract_content(ct.doc, ct.content_selector)]
    /\ UNCHANGED <<file, existing_articles, api, dt, lk, wk, hd, runvars>>

NextContent == ExtractContent

SpecContent == InitContent /\ [][NextContent]_vars

\* the non-empty text of the paragraphs of fallback tier i: 1 the paragraphs
\* inside an article element, 2 those inside a div with an article or content
\* class, 3 the document's long paragraphs outside nav, footer and header
TierText(doc, i) ==
    CASE i = 1 -> JoinBlankLine(StrippedTexts(SelectArticleP(doc)))
      [] i = 2 -> JoinBlankLine(StrippedTexts(
                      IF SelectDivClassP(doc, "article") # <<>>
                      THEN SelectDivClassP(doc, "article")
                      ELSE SelectDivClassP(doc, "content")))
      [] OTHER -> JoinBlankLine(Texts(ContentParagraphs(doc)))

FirstTierWithText(doc) ==
    IF TierText(doc, 1) # "" THEN TierText(doc, 1)
    ELSE IF TierText(doc, 2) # "" THEN TierText(doc, 2)
    ELSE TierText(doc, 3)

(* C23: when the ruleset's content selector gives no text, the content is the
   text of the first fallback tier (article paragraphs, then article or
   content class paragraphs, then the filtered document paragraphs) that has
   any non-empty text: a tier whose paragraphs are all empty does not win and
   the content is the text of that one tier alone. *)
C23_FirstTierWithTextWins ==
    (ct.done /\ SelectorContent(ct.doc, ct.content_selector) = "") =>
        ct.content = FirstTierWithText(ct.doc)

----------------------------------------------------------------------------
(* SpecHeader: the header row df.to_csv writes in save_articles. Here a dict
   is the sequence of its keys in insertion order, which is what decides the
   columns of pd.DataFrame(all_articles); the values play no part. *)

MaxNewArticles == 2

NoHeader == <<>>

\* the keys of article_data in extract_article_bs4, in the order of the literal
AssembledKeys == <<"title", "author", "content", "source", "url", "date">>

\* the keys of the records callers of save_articles hand over
ArticleKeySeqs ==
    {AssembledKeys,
     <<"url", "title">>,
     <<"title", "content", "source", "url", "date">>,
     <<"title", "author", "content", "source", "url", "date", "extra">>}

\* the header of the file before the flush: no file, a file this program
\* wrote from assembled records, and files with another column order
PreviousHeaders ==
    {NoHeader,
     AssembledKeys,
     <<"url", "title", "author", "content", "source", "date">>,
     <<"title", "content", "source", "url", "date", "author">>}

SeqSet(q) == {q[i] : i \in 1..Len(q)}

\* the keys of the second sequence that the first does not have, appended
AppendMissing(cols, keys) == cols \o SelectSeq(keys, LAMBDA k : k \notin SeqSet(cols))

\* the union of the dicts' keys in the order of their first appearance
RECURSIVE FirstSeenKeys(_, _)
FirstSeenKeys(dicts, cols) ==
    IF dicts = <<>> THEN cols
    ELSE FirstSeenKeys(Tail(dicts), AppendMissing(cols, Head(dicts)))

AlphabeticalKeys == <<"author", "content", "date", "extra", "source", "title", "url">>

\* pd.DataFrame(list of dicts).columns: the keys in the order of their first
\* appearance, or sorted, as pandas releases before 0.25 did
DataFrameColumns(dicts, sorts) ==
    IF sorts
    THEN SelectSeq(AlphabeticalKeys, LAMBDA k : k \in SeqSet(FirstSeenKeys(dicts, <<>>)))
    ELSE FirstSeenKeys(dicts, <<>>)

\* for col in required_columns: if col not in df.columns: df[col] = '' (a new
\* column goes last), then to_csv writes df.columns as the header
WrittenHeader(existing_values, new_articles, sorts) ==
    AppendMissing(DataFrameColumns(existing_values \o new_articles, sorts), required_columns)

\* list(existing_articles.values()) for a file with the header given: each
\* row.to_dict() has the file's columns as its keys, in the file's order
ExistingValues(header) == IF header = NoHeader THEN <<>> ELSE <<header>>

InitHeader ==
    /\ file = NoFile
    /\ existing_articles = Unused
    /\ api = Unused
    /\ dt = Unused
    /\ lk = Unused
    /\ wk = Unused
    /\ ct = Unused
    /\ RunUnused
    /\ \E previous \in PreviousHeaders, sorts \in BOOLEAN,
          new_articles \in UNION {[1..n -> ArticleKeySeqs] : n \in 1..MaxNewArticles} :
         hd = [previous |-> previous, new_articles |-> new_articles, sorts |-> sorts,
               flushed |-> FALSE, header |-> previous]

\* a call of save_articles that has new articles and whose write succeeds
FlushHeader ==
    /\ ~hd.flushed
    /\ hd' = [hd EXCEPT !.flushed = TRUE,
                        !.header = WrittenHeader(ExistingValues(hd.previous),
                                                 hd.new_articles, hd.sorts)]
    /\ UNCHANGED <<file, existing_articles, api, dt, lk, wk, ct, runvars>>

NextHeader == FlushHeader

SpecHeader == InitHeader /\ [][NextHeader]_vars

(* C25: every flush writes the header title, author, content, source, url,
   date: the six columns, all present, in that order, whatever keys the
   records carry and whatever the column order of the file loaded before. *)
C25_HeaderFixedOrder ==
    hd.flushed => hd.header = required_columns

====
